---- MODULE Spec2Model ----
(***************************************************************************)
(* The label designer of src/pages/Index.tsx as a state machine.           *)
(*                                                                         *)
(* The state is the React state of the Index component; every action is    *)
(* one event handler, run against the state of the render it closes over   *)
(* (all its setState calls are computed from that state and take effect    *)
(* together when the handler returns).                                     *)
(*                                                                         *)
(* Lengths are whole CSS pixels.  A string id `${type}-${Date.now()}` is   *)
(* the pair <<type, reading>>, which is equal exactly when the strings     *)
(* are.  null is NULL.                                                     *)
(***************************************************************************)
EXTENDS Integers, Sequences, FiniteSets, TLC

VARIABLES
    elements,         \* LabelElement[]                       (line 34)
    selectedElement,  \* string | null                        (line 35)
    draggedElement,   \* string | null                        (line 36)
    resizingElement,  \* {id, handle} | null                  (line 37)
    labelConfig,      \* LabelConfig                          (line 38)
    lastEvent,        \* history: the event handled last, with its arguments
    assignedIds,      \* history: every id addElement has given to an element
    steps             \* history: the number of events handled so far

vars == <<elements, selectedElement, draggedElement, resizingElement, labelConfig,
          lastEvent, assignedIds, steps>>

NULL == <<>>

(***************************************************************************)
(* Bounds of the model and the inputs the events are drawn from.           *)
(***************************************************************************)
MaxElements == 2
MaxSteps == 4

ElementTypes == {"text", "barcode", "price"}

\* Date.now(): the millisecond clock.  It does not go back during a run, and
\* two calls may read the same millisecond.
ClockReadings == {0, 1}

Handles == {"se", "sw", "ne", "nw"}

\* Canvas-relative pointer positions <<clientX - rect.left, clientY - rect.top>>.
PointerPositions == {<<-2, -2>>, <<2, 2>>, <<5, 5>>, <<100, 40>>, <<150, 60>>}

LabelTexts == {"A"}
ValueTexts == {"B"}
ColorTexts == {"#ff0000"}

\* The text of the font-size input, as a sequence of characters.
FontSizeTexts == {<<>>, <<"0">>, <<"2", "0">>}

\* The texts of the label configuration's inputs.
WidthTexts == {<<>>, <<"9", ".", "5">>}
HeightTexts == {<<>>, <<"1", "5", "0">>, <<"3", "0", "0">>}
QuantityTexts == {<<>>, <<"-", "1">>}

(***************************************************************************)
(* Program constants.                                                      *)
(***************************************************************************)
MinWidth == 30
MinHeight == 20
CanvasBorder == 2
HandleReach == 6
PxPerInch == 96
TenthsOfMmPerInch == 254
PageWidth == 210
PageHeight == 297

Max(a, b) == IF a >= b THEN a ELSE b
Min(a, b) == IF a <= b THEN a ELSE b

(***************************************************************************)
(* JavaScript numbers that may be NaN (fontSize and the label              *)
(* configuration, which come from parseInt and parseFloat).  fontSize and   *)
(* quantity are counted in units; the configuration's width and height,    *)
(* which are millimetres with a fraction, are counted in tenths of a       *)
(* millimetre.                                                             *)
(***************************************************************************)
Number(v) == [isNaN |-> FALSE, value |-> v]
NaN == [isNaN |-> TRUE, value |-> 0]

\* n millimetres
Mm(n) == Number(n * 10)

\* Infinity or -Infinity (the sign decides nothing here)
Infinity == [isNaN |-> FALSE, value |-> 0, inf |-> TRUE]

IsInfinity(n) == "inf" \in DOMAIN n

\* a * b
Times(a, b) ==
    IF a.isNaN \/ b.isNaN THEN NaN
    ELSE IF IsInfinity(a) THEN (IF ~IsInfinity(b) /\ b.value = 0 THEN NaN ELSE Infinity)
    ELSE IF IsInfinity(b) THEN (IF a.value = 0 THEN NaN ELSE Infinity)
    ELSE Number(a.value * b.value)

\* index % n for an integer index >= 0: NaN for n NaN or 0, index for n
\* infinite, and else the remainder, which has the sign of index
Remainder(index, n) ==
    IF n.isNaN THEN NaN
    ELSE IF IsInfinity(n) THEN Number(index)
    ELSE IF n.value = 0 THEN NaN
    ELSE Number(index % (IF n.value < 0 THEN 0 - n.value ELSE n.value))

\* Math.floor(page / mm) for page in whole millimetres and mm in tenths
FloorOfQuotient(page, mm) ==
    IF mm.isNaN THEN NaN
    ELSE IF mm.value = 0 THEN Infinity
    ELSE IF mm.value < 0 THEN Number((0 - page * 10) \div (0 - mm.value))
    ELSE Number((page * 10) \div mm.value)

DigitChars == {"0", "1", "2", "3", "4", "5", "6", "7", "8", "9"}

DigitValue(c) ==
    CASE c = "0" -> 0 [] c = "1" -> 1 [] c = "2" -> 2 [] c = "3" -> 3 [] c = "4" -> 4
      [] c = "5" -> 5 [] c = "6" -> 6 [] c = "7" -> 7 [] c = "8" -> 8 [] c = "9" -> 9

\* The length of the longest prefix of s made of digits.
RECURSIVE DigitPrefix(_)
DigitPrefix(s) ==
    IF s = <<>> \/ Head(s) \notin DigitChars THEN 0 ELSE 1 + DigitPrefix(Tail(s))

RECURSIVE DecimalValue(_)
DecimalValue(s) ==
    IF s = <<>> THEN 0 ELSE 10 * DecimalValue(SubSeq(s, 1, Len(s) - 1)) + DigitValue(s[Len(s)])

RECURSIVE TrimStart(_)
TrimStart(s) == IF s # <<>> /\ Head(s) = " " THEN TrimStart(Tail(s)) ELSE s

\* parseInt(text) with no radix, for a text (a sequence of characters) that
\* has no "0x" prefix: leading white space, a sign, then the digits up to the
\* first character that is not one; NaN when there is no digit.
parseInt(text) ==
    LET t      == TrimStart(text)
        signed == t # <<>> /\ Head(t) \in {"-", "+"}
        body   == IF signed THEN Tail(t) ELSE t
        n      == DigitPrefix(body)
        v      == DecimalValue(SubSeq(body, 1, n))
    IN  IF n = 0 THEN NaN
        ELSE IF signed /\ Head(t) = "-" THEN Number(0 - v) ELSE Number(v)

\* parseFloat(text) for a text with no exponent and at most one digit after
\* the point, in tenths: leading white space, a sign, the digits, and after a
\* point the digits that follow; NaN when there is no digit on either side.
parseFloat(text) ==
    LET t      == TrimStart(text)
        signed == t # <<>> /\ Head(t) \in {"-", "+"}
        body   == IF signed THEN Tail(t) ELSE t
        n      == DigitPrefix(body)
        rest   == SubSeq(body, n + 1, Len(body))
        m      == IF rest # <<>> /\ Head(rest) = "." THEN DigitPrefix(Tail(rest)) ELSE 0
        whole  == DecimalValue(SubSeq(body, 1, n))
        tenths == IF m = 0 THEN 0 ELSE DigitValue(rest[2])
        v      == whole * 10 + tenths
    IN  IF n = 0 /\ m = 0 THEN NaN
        ELSE IF signed /\ Head(t) = "-" THEN Number(0 - v) ELSE Number(v)

(***************************************************************************)
(* Element store.                                                          *)
(***************************************************************************)
ElementId(type, reading) == <<type, reading>>

AllIds == {ElementId(type, reading) : type \in ElementTypes, reading \in ClockReadings}

\* addElement with one size and font size for every type.
addElementOneSize(type, reading) ==
    [ id       |-> ElementId(type, reading),
      type     |-> type,
      label    |-> IF type = "text" THEN "Nome"
                   ELSE IF type = "price" THEN "Preço" ELSE "Código",
      x        |-> 10,
      y        |-> 10,
      width    |-> 100,
      height   |-> 30,
      fontSize |-> Number(16),
      color    |-> "#000000",
      value    |-> IF type = "price" THEN "R$ 0,00"
                   ELSE IF type = "barcode" THEN "123456789" ELSE "Texto" ]

\* The object literal of addElement.
addElement(type, reading) ==
    [ id       |-> ElementId(type, reading),
      type     |-> type,
      label    |-> IF type = "text" THEN "Nome"
                   ELSE IF type = "price" THEN "Preço" ELSE "Código",
      x        |-> 10,
      y        |-> 10,
      width    |-> IF type = "barcode" THEN 120 ELSE 100,
      height   |-> IF type = "barcode" THEN 40 ELSE 30,
      fontSize |-> IF type = "barcode" THEN Number(12) ELSE Number(16),
      color    |-> "#000000",
      value    |-> IF type = "price" THEN "R$ 0,00"
                   ELSE IF type = "barcode" THEN "123456789" ELSE "Texto" ]

\* [newElement, ...elements]
prependElement(els, el) == <<el>> \o els

\* [...elements, newElement]
appendElement(els, el) == Append(els, el)

\* setSelectedElement(newElement.id)
selectionAfterAdd(sel, el) == el.id

\* { ...el, ...updates }
Merge(el, updates) ==
    [f \in DOMAIN el |-> IF f \in DOMAIN updates THEN updates[f] ELSE el[f]]

\* elements.map((el) => ({ ...el, ...updates })): the id is not compared
updateEveryElement(els, id, updates) ==
    [i \in DOMAIN els |-> [f \in DOMAIN els[i] |->
        IF f \in DOMAIN updates THEN updates[f] ELSE els[i][f]]]

\* The updated elements taken out and put back at the end of the collection.
updateElementToEnd(els, id, updates) ==
    SelectSeq(els, LAMBDA el : el.id # id) \o
    SelectSeq([i \in DOMAIN els |->
                  IF els[i].id = id
                  THEN [f \in DOMAIN els[i] |->
                           IF f \in DOMAIN updates THEN updates[f] ELSE els[i][f]]
                  ELSE els[i]],
              LAMBDA el : el.id = id)

\* elements.map((el) => (el.id !== id ? { ...el, ...updates } : el)): the
\* comparison inverted
updateOtherElements(els, id, updates) ==
    [i \in DOMAIN els |-> IF els[i].id # id
                          THEN [f \in DOMAIN els[i] |->
                                   IF f \in DOMAIN updates THEN updates[f] ELSE els[i][f]]
                          ELSE els[i]]

\* elements.map((el) => (el.id === id ? { ...el, ...updates } : el))
updateElement(els, id, updates) ==
    [i \in DOMAIN els |-> IF els[i].id = id THEN Merge(els[i], updates) ELSE els[i]]

\* elements.filter((el) => el.id !== id)
deleteElement(els, id) == SelectSeq(els, LAMBDA el : el.id # id)

\* setSelectedElement(null), whichever element is removed
selectionAlwaysCleared(sel, id) == NULL

\* deleteElement without the selection's reset
selectionKept(sel, id) == sel

\* if (selectedElement === id) setSelectedElement(null)
selectionAfterDelete(sel, id) == IF sel = id THEN NULL ELSE sel

Has(els, id) == \E i \in DOMAIN els : els[i].id = id

\* elements.find((el) => el.id === id): the first match
Find(els, id) ==
    els[CHOOSE i \in DOMAIN els :
            /\ els[i].id = id
            /\ \A j \in DOMAIN els : els[j].id = id => i <= j]

Event(op, id, arg) == [op |-> op, id |-> id, arg |-> arg]

\* Every handler run is one event of the run, recorded in the history.  For
\* "add" arg is the type and the collection before, for "delete" the selection
\* before, for "update" the fields, for "resizestart" the handle, for
\* "mousemove" the pointer position and whether the event before was a
\* pointer-move at the same position, for "mouseup" and "mouseleave" the drag
\* and resize state before.
Handled(op, id, arg) ==
    /\ steps < MaxSteps
    /\ steps' = steps + 1
    /\ lastEvent' = Event(op, id, arg)

Init ==
    /\ elements = <<>>
    /\ selectedElement = NULL
    /\ draggedElement = NULL
    /\ resizingElement = NULL
    /\ labelConfig = [width |-> Mm(50), height |-> Mm(30), quantity |-> Number(10)]
    /\ lastEvent = Event("init", NULL, NULL)
    /\ assignedIds = {}
    /\ steps = 0

\* onClick={() => addElement(type)}
AddElement ==
    \E type \in ElementTypes, reading \in ClockReadings :
        LET newElement == addElement(type, reading) IN
        /\ Len(elements) < MaxElements
        /\ \A id \in assignedIds : id[2] <= reading
        /\ elements' = appendElement(elements, newElement)
        /\ selectedElement' = selectionAfterAdd(selectedElement, newElement)
        /\ assignedIds' = assignedIds \cup {newElement.id}
        /\ UNCHANGED <<draggedElement, resizingElement, labelConfig>>
        /\ Handled("add", newElement.id, [type |-> type, pre |-> elements])

\* deleteElement also ending the drag or resize of the element it removes
DeleteElementEndingGesture ==
    \E i \in DOMAIN elements :
        LET id == elements[i].id IN
        /\ elements' = deleteElement(elements, id)
        /\ selectedElement' = selectionAfterDelete(selectedElement, id)
        /\ draggedElement' = IF draggedElement = id THEN NULL ELSE draggedElement
        /\ resizingElement' = IF resizingElement # NULL /\ resizingElement.id = id
                              THEN NULL ELSE resizingElement
        /\ UNCHANGED <<labelConfig, assignedIds>>
        /\ Handled("delete", id, selectedElement)

\* the delete button of a list entry: deleteElement(element.id)
DeleteElement ==
    \E i \in DOMAIN elements :
        LET id == elements[i].id IN
        /\ elements' = deleteElement(elements, id)
        /\ selectedElement' = selectionAfterDelete(selectedElement, id)
        /\ UNCHANGED <<draggedElement, resizingElement, labelConfig, assignedIds>>
        /\ Handled("delete", id, selectedElement)

\* the list entry's onClick: setSelectedElement(element.id)
SelectFromList ==
    \E i \in DOMAIN elements :
        /\ selectedElement' = elements[i].id
        /\ UNCHANGED <<elements, draggedElement, resizingElement, labelConfig, assignedIds>>
        /\ Handled("select", elements[i].id, NULL)

\* The property panel is rendered for `selected`, the first element whose id
\* is the selection; each input's onChange calls updateElement(selected.id, ..).
PanelEdit(updates) ==
    /\ Has(elements, selectedElement)
    /\ elements' = updateElement(elements, Find(elements, selectedElement).id, updates)
    /\ UNCHANGED <<selectedElement, draggedElement, resizingElement, labelConfig, assignedIds>>
    /\ Handled("update", selectedElement, updates)

EditLabel == \E text \in LabelTexts : PanelEdit([label |-> text])

EditValue == \E text \in ValueTexts : PanelEdit([value |-> text])

EditFontSize == \E text \in FontSizeTexts : PanelEdit([fontSize |-> parseInt(text)])

EditColor == \E text \in ColorTexts : PanelEdit([color |-> text])

\* setLabelConfig({ ...labelConfig, [field]: value })
ConfigEdit(field, value) ==
    /\ labelConfig' = [labelConfig EXCEPT ![field] = value]
    /\ UNCHANGED <<elements, selectedElement, draggedElement, resizingElement, assignedIds>>
    /\ Handled("config", field, value)

EditWidth == \E text \in WidthTexts : ConfigEdit("width", parseFloat(text))

EditHeight == \E text \in HeightTexts : ConfigEdit("height", parseFloat(text))

EditQuantity == \E text \in QuantityTexts : ConfigEdit("quantity", parseInt(text))

\* handleMouseDown without setSelectedElement(elementId)
handleMouseDownNoSelect ==
    \E i \in DOMAIN elements :
        /\ draggedElement' = elements[i].id
        /\ UNCHANGED <<elements, selectedElement, resizingElement, labelConfig, assignedIds>>
        /\ Handled("mousedown", elements[i].id, NULL)

\* onMouseDown of an element's body
handleMouseDown ==
    \E i \in DOMAIN elements :
        /\ draggedElement' = elements[i].id
        /\ selectedElement' = elements[i].id
        /\ UNCHANGED <<elements, resizingElement, labelConfig, assignedIds>>
        /\ Handled("mousedown", elements[i].id, NULL)

\* handleResizeStart without e.stopPropagation(): the event goes on to the
\* element's onMouseDown, which starts a drag
handleResizeStartBubbling ==
    \E i \in DOMAIN elements, handle \in Handles :
        /\ selectedElement = elements[i].id
        /\ resizingElement' = [id |-> elements[i].id, handle |-> handle]
        /\ selectedElement' = elements[i].id
        /\ draggedElement' = elements[i].id
        /\ UNCHANGED <<elements, labelConfig, assignedIds>>
        /\ Handled("resizestart", elements[i].id, handle)

\* onMouseDown of a corner handle; the handles are rendered on the selected
\* element only
handleResizeStart ==
    \E i \in DOMAIN elements, handle \in Handles :
        /\ selectedElement = elements[i].id
        /\ resizingElement' = [id |-> elements[i].id, handle |-> handle]
        /\ selectedElement' = elements[i].id
        /\ UNCHANGED <<elements, draggedElement, labelConfig, assignedIds>>
        /\ Handled("resizestart", elements[i].id, handle)

\* The drag branch with the pointer held at a fixed offset (20, 10) from the
\* element's corner instead of at its centre.
DragUpdatesFixedOffset(element, mouseX, mouseY) ==
    [ x |-> Max(0, mouseX - 20),
      y |-> Max(0, mouseY - 10) ]

\* The drag branch with the pointer position taken as a displacement of the
\* element.
DragUpdatesRelative(element, mouseX, mouseY) ==
    [ x |-> Max(0, element.x + mouseX - element.width \div 2),
      y |-> Max(0, element.y + mouseY - element.height \div 2) ]

\* The drag branch's update.
DragUpdates(element, mouseX, mouseY) ==
    [ x |-> Max(0, mouseX - element.width \div 2),
      y |-> Max(0, mouseY - element.height \div 2) ]

\* The resize branch without Math.max(30, ..) and Math.max(20, ..).
ResizeUpdatesUnclamped(element, handle, mouseX, mouseY) ==
    LET right  == element.x + element.width
        bottom == element.y + element.height
        west   == handle \in {"sw", "nw"}
        north  == handle \in {"ne", "nw"}
    IN  [ width  |-> IF west THEN right - mouseX ELSE mouseX - element.x,
          height |-> IF north THEN bottom - mouseY ELSE mouseY - element.y,
          x      |-> IF west THEN Min(mouseX, right - MinWidth) ELSE element.x,
          y      |-> IF north THEN Min(mouseY, bottom - MinHeight) ELSE element.y ]

\* The resize branch with the moving corner put at the raw pointer position:
\* x = mouseX and y = mouseY without Math.min(.., right - 30 / bottom - 20).
ResizeUpdatesRawOrigin(element, handle, mouseX, mouseY) ==
    LET right  == element.x + element.width
        bottom == element.y + element.height
        west   == handle \in {"sw", "nw"}
        north  == handle \in {"ne", "nw"}
    IN  [ width  |-> IF west THEN Max(MinWidth, right - mouseX)
                     ELSE Max(MinWidth, mouseX - element.x),
          height |-> IF north THEN Max(MinHeight, bottom - mouseY)
                     ELSE Max(MinHeight, mouseY - element.y),
          x      |-> IF west THEN mouseX ELSE element.x,
          y      |-> IF north THEN mouseY ELSE element.y ]

\* The resize branch's switch and update.
ResizeUpdates(element, handle, mouseX, mouseY) ==
    LET right  == element.x + element.width
        bottom == element.y + element.height
        west   == handle \in {"sw", "nw"}
        north  == handle \in {"ne", "nw"}
    IN  [ width  |-> IF west THEN Max(MinWidth, right - mouseX)
                     ELSE Max(MinWidth, mouseX - element.x),
          height |-> IF north THEN Max(MinHeight, bottom - mouseY)
                     ELSE Max(MinHeight, mouseY - element.y),
          x      |-> IF west THEN Min(mouseX, right - MinWidth) ELSE element.x,
          y      |-> IF north THEN Min(mouseY, bottom - MinHeight) ELSE element.y ]

\* handleMouseMove with the two branches in the other order: the drag's
\* setElements call comes last and wins.
MouseMoveElementsDragLast(els, dragged, resizing, mouseX, mouseY) ==
    LET afterResize ==
            IF resizing # NULL /\ Has(els, resizing.id)
            THEN updateElement(els, resizing.id,
                     ResizeUpdates(Find(els, resizing.id), resizing.handle, mouseX, mouseY))
            ELSE els
    IN  IF dragged # NULL /\ Has(els, dragged)
        THEN updateElement(els, dragged, DragUpdates(Find(els, dragged), mouseX, mouseY))
        ELSE afterResize

\* The value of `elements` after handleMouseMove: both branches read the
\* `elements` of the render, and the last setElements call wins.
MouseMoveElements(els, dragged, resizing, mouseX, mouseY) ==
    LET afterDrag ==
            IF dragged # NULL
            THEN updateElement(els, dragged, DragUpdates(Find(els, dragged), mouseX, mouseY))
            ELSE els
    IN  IF dragged # NULL /\ ~Has(els, dragged) THEN els
        ELSE IF resizing # NULL /\ Has(els, resizing.id)
        THEN updateElement(els, resizing.id,
                 ResizeUpdates(Find(els, resizing.id), resizing.handle, mouseX, mouseY))
        ELSE afterDrag

\* element.width / 2 and element.height / 2 are whole numbers of pixels
HalvesExactly(els, dragged) ==
    dragged # NULL /\ Has(els, dragged) =>
        /\ Find(els, dragged).width % 2 = 0
        /\ Find(els, dragged).height % 2 = 0

\* px <= mmToPx(mm), for mm a Number of tenths of a millimetre.  A length of
\* NaN px is no CSS length: the box then has no extent of its own here.
WithinMm(px, mm) ==
    ~mm.isNaN /\ px * TenthsOfMmPerInch <= mm.value * PxPerInch

\* The canvas receives a pointer event when the pointer is over its box or over
\* one of its descendants: an element's box, or a handle of the selected one.
\* Descendants are laid out from the inner edge of the canvas border.
OverCanvas(cfg, mouseX, mouseY) ==
    /\ 0 <= mouseX /\ WithinMm(mouseX, cfg.width)
    /\ 0 <= mouseY /\ WithinMm(mouseY, cfg.height)

OverElement(el, mouseX, mouseY) ==
    /\ el.x + CanvasBorder <= mouseX /\ mouseX <= el.x + CanvasBorder + el.width
    /\ el.y + CanvasBorder <= mouseY /\ mouseY <= el.y + CanvasBorder + el.height

OverHandle(el, mouseX, mouseY) ==
    \E cx \in {el.x, el.x + el.width}, cy \in {el.y, el.y + el.height} :
        /\ cx + CanvasBorder - HandleReach <= mouseX
        /\ mouseX <= cx + CanvasBorder + HandleReach
        /\ cy + CanvasBorder - HandleReach <= mouseY
        /\ mouseY <= cy + CanvasBorder + HandleReach

PointerReachesCanvas(els, sel, cfg, mouseX, mouseY) ==
    \/ OverCanvas(cfg, mouseX, mouseY)
    \/ \E i \in DOMAIN els :
          \/ OverElement(els[i], mouseX, mouseY)
          \/ els[i].id = sel /\ OverHandle(els[i], mouseX, mouseY)

\* onMouseMove of the canvas
handleMouseMove ==
    \E p \in PointerPositions :
        /\ PointerReachesCanvas(elements, selectedElement, labelConfig, p[1], p[2])
        /\ HalvesExactly(elements, draggedElement)
        /\ elements' = MouseMoveElements(elements, draggedElement, resizingElement, p[1], p[2])
        /\ UNCHANGED <<selectedElement, draggedElement, resizingElement, labelConfig, assignedIds>>
        /\ Handled("mousemove", NULL,
                   <<p[1], p[2], lastEvent.op = "mousemove" /\ lastEvent.arg[1] = p[1]
                                                            /\ lastEvent.arg[2] = p[2]>>)

\* setDraggedElement(null); setResizingElement(null)
clearedDrag(dragged) == NULL

\* handleMouseUp without setResizingElement(null)
keptResize(resizing) == resizing

clearedResize(resizing) == NULL

\* onMouseUp of the canvas
handleMouseUp ==
    /\ draggedElement' = clearedDrag(draggedElement)
    /\ resizingElement' = clearedResize(resizingElement)
    /\ UNCHANGED <<elements, selectedElement, labelConfig, assignedIds>>
    /\ Handled("mouseup", NULL, <<draggedElement, resizingElement>>)

\* onMouseLeave of the canvas
handleMouseLeave ==
    /\ draggedElement' = clearedDrag(draggedElement)
    /\ resizingElement' = clearedResize(resizingElement)
    /\ UNCHANGED <<elements, selectedElement, labelConfig, assignedIds>>
    /\ Handled("mouseleave", NULL, <<draggedElement, resizingElement>>)

(***************************************************************************)
(* Edit view: what the side panel and the canvas render from the state.    *)
(***************************************************************************)
\* const selected = elements.find((el) => el.id === selectedElement), or NULL
\* for undefined
selected(els, sel) == IF Has(els, sel) THEN Find(els, sel) ELSE NULL

\* {selected && ( .. the property panel .. )}
PanelShown(els, sel) == selected(els, sel) # NULL

\* The values of the panel's four inputs, NULL when the panel is not rendered.
PanelFields(els, sel) ==
    IF PanelShown(els, sel)
    THEN [ label    |-> selected(els, sel).label,
           value    |-> selected(els, sel).value,
           fontSize |-> selected(els, sel).fontSize,
           color    |-> selected(els, sel).color ]
    ELSE NULL

\* {elements.length === 0 && <p>Adicione elementos à etiqueta</p>}
ListPlaceholderShown(els) == Len(els) = 0

\* {elements.length === 0 && <div>Adicione elementos usando o painel lateral</div>}
CanvasPlaceholderShown(els) == Len(els) = 0

(***************************************************************************)
(* Preview: what the dialog renders from elements and labelConfig.         *)
(***************************************************************************)
\* Array.from({ length: n }).length: ToLength(n) takes NaN and the negative
\* numbers to 0.
ArrayLength(n) == IF n.isNaN \/ n.value < 0 THEN 0 ELSE n.value

\* (px / mmToPx(mm)) * 100 as the fraction num / den, for mm in tenths of a
\* millimetre; NaN when mm is NaN.  den = 0 stands for the division by 0.
Percent(px, mm) ==
    IF mm.isNaN THEN [isNaN |-> TRUE, num |-> 0, den |-> 1]
    ELSE [isNaN |-> FALSE, num |-> px * TenthsOfMmPerInch * 100, den |-> mm.value * PxPerInch]

\* The element's div in one copy.
PreviewElement(el, cfg) ==
    [ key      |-> el.id,
      left     |-> Percent(el.x, cfg.width),
      top      |-> Percent(el.y, cfg.height),
      width    |-> Percent(el.width, cfg.width),
      height   |-> Percent(el.height, cfg.height),
      fontSize |-> el.fontSize,
      color    |-> el.color,
      value    |-> el.value ]

\* labelsPerRow * Math.floor(297 / labelConfig.height)
labelsPerPage(cfg) ==
    Times(FloorOfQuotient(PageWidth, cfg.width), FloorOfQuotient(PageHeight, cfg.height))

\* index % labelsPerPage === 0 evaluated for every index, index 0 included
needsPageBreakFromZero(index, cfg) ==
    Remainder(index, labelsPerPage(cfg)) = Number(0)

\* index > 0 && index % labelsPerPage === 0, for the 0-based index
needsPageBreak(index, cfg) ==
    index > 0 /\ Remainder(index, labelsPerPage(cfg)) = Number(0)

\* One label-item div: its size in mm, its page-break class and
\* elements.map(..).
PreviewCopy(els, cfg, index) ==
    [ width          |-> cfg.width,
      height         |-> cfg.height,
      needsPageBreak |-> needsPageBreak(index, cfg),
      children       |-> [j \in DOMAIN els |-> PreviewElement(els[j], cfg)] ]

\* Array.from({ length: labelConfig.quantity }).map((_, index) => ..): the
\* copy of the 0-based index is entry index + 1
Preview(els, cfg) ==
    [k \in 1..ArrayLength(cfg.quantity) |-> PreviewCopy(els, cfg, k - 1)]

\* The print-container holds the label-item divs and nothing else: the
\* preview has no placeholder node, whatever the collection.
PreviewPlaceholderShown(els) == FALSE

Next ==
    \/ AddElement
    \/ DeleteElement
    \/ SelectFromList
    \/ EditLabel
    \/ EditValue
    \/ EditFontSize
    \/ EditColor
    \/ EditWidth
    \/ EditHeight
    \/ EditQuantity
    \/ handleMouseDown
    \/ handleResizeStart
    \/ handleMouseMove
    \/ handleMouseUp
    \/ handleMouseLeave

Spec == Init /\ [][Next]_vars

(***************************************************************************)
(* The store's operations called with any id, present or not (the handlers *)
(* above only ever pass the id of an element of the collection), among the *)
(* events that set the selection and the drag and resize state.            *)
(***************************************************************************)
UpdateInputs == {[label |-> "A"], [fontSize |-> Number(20)], [x |-> 0, y |-> 0]}

UpdateCall ==
    \E id \in AllIds, updates \in UpdateInputs :
        /\ elements' = updateElement(elements, id, updates)
        /\ UNCHANGED <<selectedElement, draggedElement, resizingElement, labelConfig, assignedIds>>
        /\ Handled("update", id, updates)

DeleteCall ==
    \E id \in AllIds :
        /\ elements' = deleteElement(elements, id)
        /\ selectedElement' = selectionAfterDelete(selectedElement, id)
        /\ UNCHANGED <<draggedElement, resizingElement, labelConfig, assignedIds>>
        /\ Handled("delete", id, selectedElement)

StoreNext ==
    \/ AddElement
    \/ SelectFromList
    \/ handleMouseDown
    \/ handleResizeStart
    \/ handleMouseMove
    \/ UpdateCall
    \/ DeleteCall

StoreSpec == Init /\ [][StoreNext]_vars

(***************************************************************************)
(* The program from the state it is in after these three events: an        *)
(* element text-0 is added, a button is pressed on its body and, with the  *)
(* button still down, the element is deleted (through its delete button,   *)
(* reached with the keyboard).  The dragged element then names an element  *)
(* that is no longer in the collection.  steps counts from that state.     *)
(***************************************************************************)
StaleDragInit ==
    /\ elements = <<>>
    /\ selectedElement = NULL
    /\ draggedElement = ElementId("text", 0)
    /\ resizingElement = NULL
    /\ labelConfig = [width |-> Mm(50), height |-> Mm(30), quantity |-> Number(10)]
    /\ lastEvent = Event("delete", ElementId("text", 0), ElementId("text", 0))
    /\ assignedIds = {ElementId("text", 0)}
    /\ steps = 0

StaleDragSpec == StaleDragInit /\ [][Next]_vars

(***************************************************************************)
(* Properties.                                                             *)
(***************************************************************************)
LastElement(els) == els[Len(els)]

\* C1: in every reachable state every element of the collection is at least
\* 30 px wide and at least 20 px high, also after a resize move whose pointer
\* has crossed the anchored edge.
C1_MinimumSize ==
    \A i \in DOMAIN elements : elements[i].width >= 30 /\ elements[i].height >= 20

\* A southwest resize move with the pointer right of the anchored right edge
\* has left the element at the minimum width.
C1_Witness ==
    /\ lastEvent.op = "mousemove"
    /\ draggedElement = NULL
    /\ resizingElement # NULL
    /\ Has(elements, resizingElement.id)
    /\ resizingElement.handle = "sw"
    /\ LET el == Find(elements, resizingElement.id)
       IN  lastEvent.arg[1] > el.x + el.width /\ el.width = 30

\* C2: in every reachable state every element has x >= 0 and y >= 0, after
\* drag moves and after resize moves from the sw, ne and nw handles.
C2_NonNegativePosition ==
    \A i \in DOMAIN elements : elements[i].x >= 0 /\ elements[i].y >= 0

\* C3: no two elements of the collection have the same id, whatever adds and
\* removes came before, two adds of one type at one clock reading included.
C3_UniqueIds ==
    \A i, j \in DOMAIN elements : i # j => elements[i].id # elements[j].id

\* C4: an add never assigns an id that was assigned before (also when the
\* first holder has been removed), and no operation changes the id of an
\* element that stays in the collection.
C4_IdNeverReusedNorChanged ==
    [][ /\ lastEvent'.op = "add" => lastEvent'.id \notin assignedIds
        /\ lastEvent'.op \notin {"add", "delete"} =>
              /\ Len(elements') = Len(elements)
              /\ \A i \in DOMAIN elements : elements'[i].id = elements[i].id
      ]_vars

\* C5: an add leaves the previous collection unchanged and in order, followed
\* by exactly one new element of the given type as the last entry, and the
\* selection is the new element's id.
C5_AddAppendsAndSelects ==
    [][ lastEvent'.op = "add" =>
          /\ Len(elements') = Len(elements) + 1
          /\ SubSeq(elements', 1, Len(elements)) = elements
          /\ LastElement(elements').type = lastEvent'.arg.type
          /\ selectedElement' = LastElement(elements').id
      ]_vars

\* An add into a collection that already holds an element has acted.
C5_Witness ==
    /\ lastEvent.op = "add"
    /\ Len(elements) = 2
    /\ lastEvent.arg.pre = <<elements[1]>>
    /\ selectedElement = elements[2].id

\* C6: the element an add creates is at (10,10), black, and has its type's
\* defaults: text and price 100x30 with font size 16, barcode 120x40 with font
\* size 12; label/value Nome/Texto, Preço/R$ 0,00, Código/123456789.
C6_AddDefaults ==
    [][ lastEvent'.op = "add" =>
          LET el   == LastElement(elements')
              type == lastEvent'.arg.type
          IN  /\ el.x = 10 /\ el.y = 10 /\ el.color = "#000000"
              /\ type \in {"text", "price"} =>
                    el.width = 100 /\ el.height = 30 /\ el.fontSize = Number(16)
              /\ type = "barcode" =>
                    el.width = 120 /\ el.height = 40 /\ el.fontSize = Number(12)
              /\ type = "text" => el.label = "Nome" /\ el.value = "Texto"
              /\ type = "price" => el.label = "Preço" /\ el.value = "R$ 0,00"
              /\ type = "barcode" => el.label = "Código" /\ el.value = "123456789"
      ]_vars

\* A barcode has been added after an element of another type.
C6_Witness ==
    /\ lastEvent.op = "add"
    /\ lastEvent.arg.type = "barcode"
    /\ Len(elements) = 2
    /\ elements[1].type # "barcode"
    /\ elements[2].width = 120

\* C7: update(id, fields) changes only the named fields of the elements whose
\* id matches; every other field, every other element, the collection's length
\* and order, the selection and the drag/resize state are unchanged; with no
\* matching element the whole state is unchanged.
C7_UpdateFrame ==
    [][ lastEvent'.op = "update" =>
          LET id      == lastEvent'.id
              updates == lastEvent'.arg
          IN  /\ Len(elements') = Len(elements)
              /\ \A i \in DOMAIN elements :
                    /\ DOMAIN elements'[i] = DOMAIN elements[i]
                    /\ \A f \in DOMAIN elements[i] :
                          elements'[i][f] =
                              IF elements[i].id = id /\ f \in DOMAIN updates
                              THEN updates[f] ELSE elements[i][f]
              /\ selectedElement' = selectedElement
              /\ draggedElement' = draggedElement
              /\ resizingElement' = resizingElement
              /\ labelConfig' = labelConfig
              /\ (\A i \in DOMAIN elements : elements[i].id # id) => elements' = elements
      ]_vars

\* An update of the label of the first of two elements has acted, and the
\* second element, which has another id, keeps its label.
C7_Witness ==
    /\ lastEvent.op = "update"
    /\ DOMAIN lastEvent.arg = {"label"}
    /\ Len(elements) = 2
    /\ elements[1].id = lastEvent.id
    /\ elements[2].id # lastEvent.id
    /\ elements[1].label = lastEvent.arg.label
    /\ elements[2].label # lastEvent.arg.label

\* els without the elements whose id is id, in order.
RECURSIVE Without(_, _)
Without(els, id) ==
    IF els = <<>> THEN <<>>
    ELSE IF Head(els).id = id THEN Without(Tail(els), id)
    ELSE <<Head(els)>> \o Without(Tail(els), id)

\* C8: remove(id) deletes the element with that id and leaves every other
\* element unchanged and in order; the selection becomes null if the removed id
\* was the selected one and keeps its value otherwise; with no matching element
\* the collection is unchanged.
C8_RemoveEffect ==
    [][ lastEvent'.op = "delete" =>
          LET id == lastEvent'.id
          IN  /\ elements' = Without(elements, id)
              /\ \A i \in DOMAIN elements' : elements'[i].id # id
              /\ selectedElement = id => selectedElement' = NULL
              /\ selectedElement # id => selectedElement' = selectedElement
              /\ (\A i \in DOMAIN elements : elements[i].id # id) => elements' = elements
      ]_vars

\* The selected one of two elements has been removed: the other one is left
\* and nothing is selected.
C8_Witness ==
    /\ lastEvent.op = "delete"
    /\ lastEvent.arg = lastEvent.id
    /\ selectedElement = NULL
    /\ Len(elements) = 1
    /\ elements[1].id # lastEvent.id

\* C9: an add followed immediately by the remove of the id the add created
\* leaves the collection as it was before the add (the same number of elements
\* and the same elements) and the selection null.
C9_AddThenRemoveRestores ==
    [][ (lastEvent.op = "add" /\ lastEvent'.op = "delete" /\ lastEvent'.id = lastEvent.id) =>
          /\ Len(elements') = Len(lastEvent.arg.pre)
          /\ elements' = lastEvent.arg.pre
          /\ selectedElement' = NULL
      ]_vars

\* C10: a pointer-up or a pointer-leave on the canvas leaves the dragged
\* element and the resizing element null, whatever they were, and changes
\* neither the elements nor the selection.
C10_PointerReleaseClears ==
    [][ lastEvent'.op \in {"mouseup", "mouseleave"} =>
          /\ draggedElement' = NULL
          /\ resizingElement' = NULL
          /\ elements' = elements
          /\ selectedElement' = selectedElement
      ]_vars

\* The pointer has left the canvas while a drag and a resize were both active.
C10_Witness ==
    /\ lastEvent.op = "mouseleave"
    /\ lastEvent.arg[1] # NULL
    /\ lastEvent.arg[2] # NULL
    /\ draggedElement = NULL
    /\ resizingElement = NULL

\* StaleDragInit but for the count of events: Spec reaches it.
StaleDragReached ==
    /\ elements = <<>>
    /\ selectedElement = NULL
    /\ draggedElement = ElementId("text", 0)
    /\ resizingElement = NULL
    /\ labelConfig = [width |-> Mm(50), height |-> Mm(30), quantity |-> Number(10)]
    /\ lastEvent = Event("delete", ElementId("text", 0), ElementId("text", 0))
    /\ assignedIds = {ElementId("text", 0)}

\* C11: drag and resize are mutually exclusive: in no reachable state are the
\* dragged element and the resizing element both set.
C11_DragResizeExclusive ==
    ~(draggedElement # NULL /\ resizingElement # NULL)

C13_SoutheastResize ==
    [][ ( /\ lastEvent'.op = "mousemove"
          /\ resizingElement # NULL
          /\ resizingElement.handle = "se"
          /\ Has(elements, resizingElement.id) ) =>
          \A i \in DOMAIN elements : elements[i].id = resizingElement.id =>
              /\ elements'[i].width = Max(30, lastEvent'.arg[1] - elements[i].x)
              /\ elements'[i].height = Max(20, lastEvent'.arg[2] - elements[i].y)
              /\ elements'[i].x = elements[i].x
              /\ elements'[i].y = elements[i].y
      ]_vars

C15_SouthwestResize ==
    [][ ( /\ lastEvent'.op = "mousemove"
          /\ resizingElement # NULL
          /\ resizingElement.handle = "sw"
          /\ Has(elements, resizingElement.id) ) =>
          \A i \in DOMAIN elements : elements[i].id = resizingElement.id =>
              LET right == elements[i].x + elements[i].width
              IN  /\ elements'[i].width = Max(30, right - lastEvent'.arg[1])
                  /\ elements'[i].x = Min(lastEvent'.arg[1], right - 30)
                  /\ elements'[i].height = Max(20, lastEvent'.arg[2] - elements[i].y)
                  /\ elements'[i].y = elements[i].y
      ]_vars

\* C16: a resize move from the nw handle with the pointer at (px, py) sets
\* x = min(px, right - 30), y = min(py, bottom - 20), width = max(30, right -
\* px) and height = max(20, bottom - py), for right = x + width and bottom =
\* y + height before the move (from (10,10,100,30), a pointer at (5,5) gives
\* (5,5,105,35)).
C16_NorthwestResize ==
    [][ ( /\ lastEvent'.op = "mousemove"
          /\ resizingElement # NULL
          /\ resizingElement.handle = "nw"
          /\ Has(elements, resizingElement.id) ) =>
          \A i \in DOMAIN elements : elements[i].id = resizingElement.id =>
              LET right  == elements[i].x + elements[i].width
                  bottom == elements[i].y + elements[i].height
              IN  /\ elements'[i].x = Min(lastEvent'.arg[1], right - 30)
                  /\ elements'[i].y = Min(lastEvent'.arg[2], bottom - 20)
                  /\ elements'[i].width = Max(30, right - lastEvent'.arg[1])
                  /\ elements'[i].height = Max(20, bottom - lastEvent'.arg[2])
      ]_vars

\* C17: an edit of a numeric input (font size, label width, label height,
\* quantity) whose text is no number (the parsed value is NaN) never stores
\* NaN: the field keeps its value or takes a number, and the other fields of
\* the element or of the configuration are unchanged.
C17_InvalidNumberNotStored ==
    [][ /\ (lastEvent'.op = "config" /\ lastEvent'.arg.isNaN) =>
              /\ ~labelConfig'[lastEvent'.id].isNaN
              /\ \A f \in DOMAIN labelConfig \ {lastEvent'.id} :
                    labelConfig'[f] = labelConfig[f]
        /\ ( /\ lastEvent'.op = "update"
             /\ "fontSize" \in DOMAIN lastEvent'.arg
             /\ lastEvent'.arg.fontSize.isNaN ) =>
              \A i \in DOMAIN elements :
                  /\ ~elements'[i].fontSize.isNaN
                  /\ \A f \in DOMAIN elements[i] \ {"fontSize"} :
                        elements'[i][f] = elements[i][f]
      ]_vars

\* C18: in every reachable state the configuration's quantity is a
\* non-negative integer, whatever text is entered in the quantity field.
C18_QuantityNonNegative ==
    ~labelConfig.quantity.isNaN /\ labelConfig.quantity.value \in Nat

\* C19: in every reachable state every element's fontSize is a positive
\* integer, whatever text is entered in the font-size field.
C19_FontSizePositive ==
    \A i \in DOMAIN elements :
        /\ ~elements[i].fontSize.isNaN
        /\ elements[i].fontSize.value \in Nat \ {0}

\* C20: the preview renders exactly quantity copies of the label, each width
\* mm x height mm of the configuration, each holding every element of the
\* collection once, in collection order, at the same relative position in
\* every copy (x and y as fractions of the canvas's pixel width and height).
C20_PreviewCopies ==
    LET preview == Preview(elements, labelConfig)
    IN  /\ ~labelConfig.quantity.isNaN
        /\ Len(preview) = labelConfig.quantity.value
        /\ \A c \in DOMAIN preview :
              /\ preview[c].width = labelConfig.width
              /\ preview[c].height = labelConfig.height
              /\ Len(preview[c].children) = Len(elements)
              /\ \A j \in DOMAIN elements :
                    /\ preview[c].children[j].key = elements[j].id
                    /\ preview[c].children[j].left = Percent(elements[j].x, labelConfig.width)
                    /\ preview[c].children[j].top = Percent(elements[j].y, labelConfig.height)
                    /\ preview[c].children[j].left = preview[1].children[j].left
                    /\ preview[c].children[j].top = preview[1].children[j].top


\* C21: whenever the collection is empty the empty-canvas placeholder is
\* shown in the edit view and in the preview; whenever it is not empty the
\* placeholder is shown in neither.
C21_PlaceholderIffEmpty ==
    /\ Len(elements) = 0 =>
          /\ CanvasPlaceholderShown(elements)
          /\ ListPlaceholderShown(elements)
          /\ PreviewPlaceholderShown(elements)
    /\ Len(elements) # 0 =>
          /\ ~CanvasPlaceholderShown(elements)
          /\ ~ListPlaceholderShown(elements)
          /\ ~PreviewPlaceholderShown(elements)

\* C22: an update of an element that is not the selected one leaves the
\* fields the property panel shows (label, value, fontSize and color of the
\* selected element) unchanged.
C22_UpdateOtherKeepsPanel ==
    [][ (lastEvent'.op = "update" /\ lastEvent'.id # selectedElement) =>
          PanelFields(elements', selectedElement') = PanelFields(elements, selectedElement)
      ]_vars

\* update(id, {fontSize: 20}) has acted on the first of two elements while the
\* second, which has another id, is selected and shows another font size.
C22_Witness ==
    /\ lastEvent.op = "update"
    /\ DOMAIN lastEvent.arg = {"fontSize"}
    /\ Len(elements) = 2
    /\ elements[1].id = lastEvent.id
    /\ elements[1].fontSize = Number(20)
    /\ selectedElement = elements[2].id
    /\ elements[2].id # elements[1].id
    /\ PanelFields(elements, selectedElement) # NULL
    /\ PanelFields(elements, selectedElement).fontSize # Number(20)


\* C23: pointer-up and pointer-leave are the only events that end an active
\* drag or resize: every other event (add, select, property or config edit,
\* pointer-move, pointer-down, resize-start, delete, also of the element being
\* dragged or resized) leaves a non-null dragged or resizing state non-null.
C23_OnlyReleaseEndsGesture ==
    [][ lastEvent'.op \notin {"mouseup", "mouseleave"} =>
          /\ draggedElement # NULL => draggedElement' # NULL
          /\ resizingElement # NULL => resizingElement' # NULL
      ]_vars

\* The element being resized has been deleted and the resize is still active.
C23_Witness ==
    /\ lastEvent.op = "delete"
    /\ resizingElement # NULL
    /\ resizingElement.id = lastEvent.id
    /\ ~Has(elements, resizingElement.id)

\* C24: a resize starts only on the selected element and only with one of the
\* handles se, sw, ne, nw; it sets the resizing state to that element and
\* handle, leaves the selection on that element and does not set the dragged
\* element.
C24_ResizeStart ==
    [][ lastEvent'.op = "resizestart" =>
          /\ selectedElement = lastEvent'.id
          /\ Has(elements, lastEvent'.id)
          /\ lastEvent'.arg \in {"se", "sw", "ne", "nw"}
          /\ resizingElement' = [id |-> lastEvent'.id, handle |-> lastEvent'.arg]
          /\ selectedElement' = lastEvent'.id
          /\ draggedElement' = draggedElement
          /\ elements' = elements
      ]_vars

\* A resize has started from the ne handle of the selected element, with no
\* drag active.
C24_Witness ==
    /\ lastEvent.op = "resizestart"
    /\ lastEvent.arg = "ne"
    /\ resizingElement = [id |-> lastEvent.id, handle |-> "ne"]
    /\ selectedElement = lastEvent.id
    /\ draggedElement = NULL

\* C25: a pointer-down on an element's body sets the dragged element and the
\* selection to that element's id, changes no element's fields and does not
\* set the resizing state.
C25_PointerDown ==
    [][ lastEvent'.op = "mousedown" =>
          /\ Has(elements, lastEvent'.id)
          /\ draggedElement' = lastEvent'.id
          /\ selectedElement' = lastEvent'.id
          /\ elements' = elements
          /\ resizingElement' = resizingElement
      ]_vars

\* A pointer-down on the first of two elements has acted: the first element
\* is dragged and selected (the add of the second had selected the second).
C25_Witness ==
    /\ lastEvent.op = "mousedown"
    /\ Len(elements) = 2
    /\ elements[1].id = lastEvent.id
    /\ elements[2].id # lastEvent.id
    /\ draggedElement = lastEvent.id
    /\ selectedElement = lastEvent.id
    /\ resizingElement = NULL


\* C26: the collection is always in insertion order.  An add keeps the
\* elements before it in their order and puts the new one last; a remove
\* keeps the elements of other ids in their order; every other operation
\* (update, drag move, resize move, ..) keeps every element at its index with
\* its id and type, and so merges no two elements into one.
C26_InsertionOrder ==
    [][ /\ lastEvent'.op = "add" =>
              /\ Len(elements') = Len(elements) + 1
              /\ \A i \in DOMAIN elements : elements'[i] = elements[i]
        /\ lastEvent'.op = "delete" =>
              /\ elements' = Without(elements, lastEvent'.id)
              /\ Len(elements') =
                    Cardinality({i \in DOMAIN elements : elements[i].id # lastEvent'.id})
        /\ lastEvent'.op \notin {"add", "delete"} =>
              /\ Len(elements') = Len(elements)
              /\ \A i \in DOMAIN elements :
                    /\ elements'[i].id = elements[i].id
                    /\ elements'[i].type = elements[i].type
      ]_vars

\* A drag move has moved the first of two elements, which is still the first.
C26_Witness ==
    /\ lastEvent.op = "mousemove"
    /\ Len(elements) = 2
    /\ draggedElement = elements[1].id
    /\ elements[2].id # elements[1].id
    /\ elements[1].x # 10
    /\ elements[2].x = 10


\* C27: in the preview, for the per-page capacity C = floor(210 / width) *
\* floor(297 / height) of a configuration with a positive width and height,
\* the copy of the 0-based index i carries the page-break marker exactly when
\* i > 0 and i is a multiple of C; when C is 0 no copy carries it.
C27_PageBreak ==
    ( /\ ~labelConfig.width.isNaN /\ labelConfig.width.value > 0
      /\ ~labelConfig.height.isNaN /\ labelConfig.height.value > 0 ) =>
        LET preview == Preview(elements, labelConfig)
            C       == (2100 \div labelConfig.width.value) * (2970 \div labelConfig.height.value)
        IN  \A k \in DOMAIN preview :
                preview[k].needsPageBreak <=>
                    (k - 1 > 0 /\ C # 0 /\ \E n \in 0..(k - 1) : k - 1 = n * C)

\* The label has been made 150 mm high (C = 4 * 1): of the 10 copies those of
\* index 4 and 8 carry the marker and no other does.
C27_Witness ==
    /\ labelConfig.width = Mm(50)
    /\ labelConfig.height = Mm(150)
    /\ Len(Preview(elements, labelConfig)) = 10
    /\ \A k \in 1..10 : Preview(elements, labelConfig)[k].needsPageBreak <=> k \in {5, 9}


\* C28: the selection never dangles: in every reachable state the selected id
\* is null or the id of an element of the collection, so that the property
\* panel is shown exactly when the selection is not null.
C28_SelectionNeverDangles ==
    /\ selectedElement = NULL \/ \E i \in DOMAIN elements : elements[i].id = selectedElement
    /\ PanelShown(elements, selectedElement) <=> selectedElement # NULL

\* The selected element has been deleted while another element is left: the
\* selection is null, not the id of the deleted element.
C28_Witness ==
    /\ lastEvent.op = "delete"
    /\ lastEvent.arg = lastEvent.id
    /\ Len(elements) = 1
    /\ selectedElement = NULL
    /\ ~PanelShown(elements, selectedElement)
    /\ draggedElement = lastEvent.id


\* C29: when a pointer-move at (px, py) arrives while a drag and a resize are
\* both active on elements of the collection, the collection becomes the one
\* before the move with only the resize applied: the elements of the resized
\* id get the geometry of their handle's case, computed from the geometry
\* before the move, and every other element, the dragged one included, is
\* unchanged.
C29_ResizeWinsOverDrag ==
    [][ ( /\ lastEvent'.op = "mousemove"
          /\ draggedElement # NULL /\ Has(elements, draggedElement)
          /\ resizingElement # NULL /\ Has(elements, resizingElement.id) ) =>
          LET px     == lastEvent'.arg[1]
              py     == lastEvent'.arg[2]
              handle == resizingElement.handle
              old    == Find(elements, resizingElement.id)
              right  == old.x + old.width
              bottom == old.y + old.height
          IN  /\ Len(elements') = Len(elements)
              /\ \A i \in DOMAIN elements :
                    IF elements[i].id # resizingElement.id
                    THEN elements'[i] = elements[i]
                    ELSE /\ elements'[i].width =
                               IF handle \in {"se", "ne"} THEN Max(30, px - old.x)
                               ELSE Max(30, right - px)
                         /\ elements'[i].height =
                               IF handle \in {"se", "sw"} THEN Max(20, py - old.y)
                               ELSE Max(20, bottom - py)
                         /\ elements'[i].x =
                               IF handle \in {"se", "ne"} THEN old.x ELSE Min(px, right - 30)
                         /\ elements'[i].y =
                               IF handle \in {"se", "sw"} THEN old.y ELSE Min(py, bottom - 20)
                         /\ \A f \in DOMAIN elements[i] \ {"x", "y", "width", "height"} :
                               elements'[i][f] = elements[i][f]
      ]_vars

\* A pointer-move at (150, 60) has arrived with a drag and an se resize both
\* active on a new text element: it is resized to 140 x 50 and still at
\* (10, 10), where the drag alone would have put it at (100, 45).
C29_Witness ==
    /\ lastEvent.op = "mousemove"
    /\ lastEvent.arg[1] = 150 /\ lastEvent.arg[2] = 60
    /\ draggedElement # NULL
    /\ resizingElement = [id |-> draggedElement, handle |-> "se"]
    /\ Has(elements, draggedElement)
    /\ LET el == Find(elements, draggedElement)
       IN  el.x = 10 /\ el.y = 10 /\ el.width = 140 /\ el.height = 50


\* The state of the component.
ComponentState ==
    <<elements, selectedElement, draggedElement, resizingElement, labelConfig>>

\* C30: a pointer-move is idempotent.  With exactly one of drag and resize
\* active, a pointer-move that follows a pointer-move at the same position
\* leaves the state as the first one left it; a pointer-move with neither
\* active, or with the one that is active naming an element that is no longer
\* in the collection, leaves the whole state unchanged.
C30_PointerMoveIdempotent ==
    [][ lastEvent'.op = "mousemove" =>
          LET dragOnly   == draggedElement # NULL /\ resizingElement = NULL
              resizeOnly == draggedElement = NULL /\ resizingElement # NULL
              neither    == draggedElement = NULL /\ resizingElement = NULL
              repeated   == /\ lastEvent.op = "mousemove"
                            /\ lastEvent.arg[1] = lastEvent'.arg[1]
                            /\ lastEvent.arg[2] = lastEvent'.arg[2]
          IN  /\ ((dragOnly \/ resizeOnly) /\ repeated) => ComponentState' = ComponentState
              /\ neither => ComponentState' = ComponentState
              /\ (dragOnly /\ ~Has(elements, draggedElement)) =>
                    ComponentState' = ComponentState
              /\ (resizeOnly /\ ~Has(elements, resizingElement.id)) =>
                    ComponentState' = ComponentState
      ]_vars

\* A second pointer-move at the same position has arrived in an nw resize
\* (no drag active) of an element that the first one had resized.
C30_Witness ==
    /\ lastEvent.op = "mousemove"
    /\ lastEvent.arg[3]
    /\ draggedElement = NULL
    /\ resizingElement # NULL
    /\ resizingElement.handle = "nw"
    /\ Has(elements, resizingElement.id)
    /\ LET el == Find(elements, resizingElement.id)
       IN  el.x = lastEvent.arg[1] /\ el.y = lastEvent.arg[2] /\ el.x # 10

====
